---------------------------- MODULE Spec2Model ----------------------------
(***************************************************************************)
(* Event and Booking persistence models (Mongoose schemas with hooks).     *)
(*                                                                         *)
(*   Event   : pre('validate') hook deriving a unique slug from the title  *)
(*             and normalising the date and time fields; unique index on   *)
(*             slug in the store.                                          *)
(*   Booking : pre('save') hook checking that the referenced Event exists. *)
(*                                                                         *)
(* Strings are sequences of one-character strings, so that every string    *)
(* operation of the hooks (regular expressions, trim, padStart, template   *)
(* literals) is computed character by character.                           *)
(***************************************************************************)
EXTENDS Integers, Sequences, FiniteSets, TLC

VARIABLES
    events,     \* Event collection: id -> persisted record
    doc,        \* in-memory Event documents: id -> document
    pc,         \* where the save of each Event document stands
    cand,       \* `candidate` of the running slug section
    attempts,   \* `attempts` of the retry loop
    result,     \* outcome of the last save of each Event document
    saves,      \* number of save() calls made on each Event document
    bookings,   \* Booking collection: id -> persisted record
    bdoc,       \* in-memory Booking documents: id -> document
    bpc,        \* where the save of each Booking document stands
    bsaves,     \* number of save() calls made on each Booking document
    bresult,    \* outcome of the last save of each Booking document
    brejected,  \* history: <<booking, eventId>> of every save refused for a missing Event
    fdoc,       \* field-normalisation runs: the document handed to the hook
    fout        \* field-normalisation runs: the hook's error and the document it left

vars == <<events, doc, pc, cand, attempts, result, saves,
          bookings, bdoc, bpc, bsaves, bresult, brejected, fdoc, fout>>

eventVars   == <<events, doc, pc, cand, attempts, result, saves>>
bookingVars == <<bookings, bdoc, bpc, bsaves, bresult, brejected>>
fieldVars   == <<fdoc, fout>>

NotRun == "not-run"

-----------------------------------------------------------------------------
(* Characters and the string primitives of the runtime.                    *)

Digits == <<"0", "1", "2", "3", "4", "5", "6", "7", "8", "9">>
LowerAlpha == <<"a", "b", "c", "d", "e", "f", "g", "h", "i", "j", "k", "l", "m",
                "n", "o", "p", "q", "r", "s", "t", "u", "v", "w", "x", "y", "z">>
UpperAlpha == <<"A", "B", "C", "D", "E", "F", "G", "H", "I", "J", "K", "L", "M",
                "N", "O", "P", "Q", "R", "S", "T", "U", "V", "W", "X", "Y", "Z">>

Range(s) == {s[i] : i \in DOMAIN s}

IsDigit(c) == c \in Range(Digits)
\* \w of a JavaScript regular expression (no u flag): [A-Za-z0-9_]
IsWordChar(c) == c \in Range(Digits) \cup Range(LowerAlpha) \cup Range(UpperAlpha) \cup {"_"}
\* \s, and the characters String.prototype.trim removes
SpaceChars  == {" ", "\t", "\n"}
HyphenChars == {"-"}

DigitValue(c) == (CHOOSE i \in DOMAIN Digits : Digits[i] = c) - 1

ToLowerChar(c) ==
    IF c \in Range(UpperAlpha)
    THEN LowerAlpha[CHOOSE i \in DOMAIN UpperAlpha : UpperAlpha[i] = c]
    ELSE c

\* String.prototype.toLowerCase
ToLowerCase(s) == [i \in DOMAIN s |-> ToLowerChar(s[i])]

\* the longest suffix of s that does not start with a character of class
RECURSIVE DropWhile(_, _)
DropWhile(s, class) ==
    IF s # <<>> /\ Head(s) \in class THEN DropWhile(Tail(s), class) ELSE s

RECURSIVE DropWhileEnd(_, _)
DropWhileEnd(s, class) ==
    IF s # <<>> /\ s[Len(s)] \in class
    THEN DropWhileEnd(SubSeq(s, 1, Len(s) - 1), class)
    ELSE s

\* String.prototype.trim
Trim(s) == DropWhileEnd(DropWhile(s, SpaceChars), SpaceChars)

\* s.replace(/X+/g, '-') for a character class X: every maximal run becomes one hyphen
RECURSIVE ReplaceRuns(_, _)
ReplaceRuns(s, class) ==
    IF s = <<>> THEN <<>>
    ELSE IF Head(s) \in class THEN <<"-">> \o ReplaceRuns(DropWhile(s, class), class)
    ELSE <<Head(s)>> \o ReplaceRuns(Tail(s), class)

\* parseInt(s, 10) of a string of decimal digits
RECURSIVE ParseInt(_)
ParseInt(s) ==
    IF s = <<>> THEN 0
    ELSE 10 * ParseInt(SubSeq(s, 1, Len(s) - 1)) + DigitValue(s[Len(s)])

\* Number.prototype.toString(radix) of a natural number, digits 0-9a-z
RECURSIVE ToRadix(_, _)
ToRadix(n, radix) ==
    LET alphabet == Digits \o LowerAlpha
        last == <<alphabet[(n % radix) + 1]>>
    IN  IF n < radix THEN last ELSE ToRadix(n \div radix, radix) \o last

\* String(n) of a natural number
NumToStr(n) == ToRadix(n, 10)

\* String.prototype.padStart(n, c)
RECURSIVE PadStart(_, _, _)
PadStart(s, n, c) == IF Len(s) >= n THEN s ELSE PadStart(<<c>> \o s, n, c)

-----------------------------------------------------------------------------
(* Date.UTC and the UTC getters, in whole days: the hook passes no time of *)
(* day, so the time value is a multiple of one day.                        *)

\* day number (days since 1970-01-01) of the first day of month mn (0..11) of year y
DayOfMonthStart(y, mn) ==
    LET yy  == IF mn <= 1 THEN y - 1 ELSE y
        era == yy \div 400
        yoe == yy - era * 400
        mp  == IF mn >= 2 THEN mn - 2 ELSE mn + 10
        doy == (153 * mp + 2) \div 5
        doe == yoe * 365 + yoe \div 4 - yoe \div 100 + doy
    IN  era * 146097 + doe - 719468

\* Date.UTC(year, month, date): years 0..99 mean 1900..1999; month and date overflow
DateUTC(year, month, date) ==
    LET yr == IF year >= 0 /\ year <= 99 THEN 1900 + year ELSE year
        ym == yr + (month \div 12)
        mn == month % 12
    IN  DayOfMonthStart(ym, mn) + date - 1

\* getUTCFullYear, getUTCMonth, getUTCDate of a day number
UTCFields(day) ==
    LET z   == day + 719468
        era == z \div 146097
        doe == z - era * 146097
        yoe == (doe - doe \div 1460 + doe \div 36524 - doe \div 146096) \div 365
        doy == doe - (365 * yoe + yoe \div 4 - yoe \div 100)
        mp  == (5 * doy + 2) \div 153
        d   == doy - (153 * mp + 2) \div 5 + 1
        m   == IF mp < 10 THEN mp + 2 ELSE mp - 10
        y   == yoe + era * 400 + (IF m <= 1 THEN 1 ELSE 0)
    IN  [year |-> y, month |-> m, date |-> d]

-----------------------------------------------------------------------------
(* The date and time sections of the Event pre('validate') hook.           *)

ErrDatePattern == "Date must be in YYYY-MM-DD format"
ErrDateInvalid == "Invalid date components"
ErrTimePattern == "Time must be in HH:MM format"
NoError == ""

\* this.date.match(/^(\d{4})-(\d{2})-(\d{2})$/)
DateMatch(s) ==
    /\ Len(s) = 10
    /\ \A i \in {1, 2, 3, 4, 6, 7, 9, 10} : IsDigit(s[i])
    /\ s[5] = "-"
    /\ s[8] = "-"

IsModified(d, path) == path \in d.mod

\* (the date path is a String path: what the hook reads is always a string)
DateSection(d) ==
    IF ~IsModified(d, "date") THEN [err |-> NoError, doc |-> d]
    ELSE IF ~DateMatch(d.date) THEN [err |-> ErrDatePattern, doc |-> d]
    ELSE
        LET yyyy == ParseInt(SubSeq(d.date, 1, 4))
            mm   == ParseInt(SubSeq(d.date, 6, 7))
            dd   == ParseInt(SubSeq(d.date, 9, 10))
            utc  == UTCFields(DateUTC(yyyy, mm - 1, dd))
        IN  IF utc.year # yyyy \/ utc.month + 1 # mm \/ utc.date # dd
            THEN [err |-> ErrDateInvalid, doc |-> d]
            ELSE
                LET mmStr == PadStart(NumToStr(mm), 2, "0")
                    ddStr == PadStart(NumToStr(dd), 2, "0")
                IN  [err |-> NoError,
                     doc |-> [d EXCEPT !.date =
                                 NumToStr(yyyy) \o <<"-">> \o mmStr \o <<"-">> \o ddStr]]

\* one of the two alternatives of the hour group: [0-1]?[0-9] or 2[0-3]
HourMatch(h) ==
    \/ Len(h) = 1 /\ IsDigit(h[1])
    \/ Len(h) = 2 /\ h[1] \in {"0", "1"} /\ IsDigit(h[2])
    \/ Len(h) = 2 /\ h[1] = "2" /\ h[2] \in {"0", "1", "2", "3"}

\* TimeMatch with the minute group [0-9][0-9]
TimeMatchAnyMinute(s) ==
    \E k \in {1, 2} :
        /\ Len(s) = k + 3
        /\ HourMatch(SubSeq(s, 1, k))
        /\ s[k + 1] = ":"
        /\ IsDigit(s[k + 2])
        /\ IsDigit(s[k + 3])

\* /^([0-1]?[0-9]|2[0-3]):([0-5][0-9])$/.test(s)
TimeMatch(s) ==
    \E k \in {1, 2} :
        /\ Len(s) = k + 3
        /\ HourMatch(SubSeq(s, 1, k))
        /\ s[k + 1] = ":"
        /\ s[k + 2] \in {"0", "1", "2", "3", "4", "5"}
        /\ IsDigit(s[k + 3])

\* s.split(':') of a string holding exactly one colon
SplitColon(s) ==
    LET i == CHOOSE j \in DOMAIN s : s[j] = ":"
    IN  <<SubSeq(s, 1, i - 1), SubSeq(s, i + 1, Len(s))>>

TimeSection(d) ==
    IF ~IsModified(d, "time") THEN [err |-> NoError, doc |-> d]
    ELSE IF ~TimeMatch(d.time) THEN [err |-> ErrTimePattern, doc |-> d]
    ELSE
        LET parts   == SplitColon(d.time)
            hours   == parts[1]
            minutes == parts[2]
        IN  [err |-> NoError,
             doc |-> [d EXCEPT !.time =
                         PadStart(hours, 2, "0") \o <<":">> \o PadStart(minutes, 2, "0")]]

\* the hook after its slug section: date, then time; the first error aborts
HookTail(d) ==
    LET r == DateSection(d)
    IN  IF r.err # NoError THEN r ELSE TimeSection(r.doc)


-----------------------------------------------------------------------------
(* Collections and documents.                                              *)

EventIds   == {"e1", "e2"}
BookingIds == {"b1"}

EmptyMap == [k \in {} |-> k]
Put(f, k, v) == [x \in DOMAIN f \cup {k} |-> IF x = k THEN v ELSE f[x]]
Remove(f, k) == [x \in DOMAIN f \ {k} |-> f[x]]

EventFields == {"title", "slug", "date", "time"}

\* new Event({title, date, time}): the title setter trims; nothing is persisted yet
NewEventDoc(title, date, time) ==
    [title |-> Trim(title), slug |-> <<>>, date |-> date, time |-> time,
     isNew |-> TRUE, mod |-> {"title", "date", "time"}]

\* doc.<path> = value: the path is marked modified when the value changes
SetPath(d, path, value) ==
    IF d[path] = value THEN d
    ELSE [d EXCEPT ![path] = value, !.mod = d.mod \cup {path}]

\* what save() writes: the whole document on insert, the modified paths on update
Persisted(d, old) ==
    [f \in EventFields |-> IF d.isNew \/ f \in d.mod THEN d[f] ELSE old[f]]

-----------------------------------------------------------------------------
(* The slug section of the Event pre('validate') hook.                     *)

ShortIdLen  == 6    \* length of generateShortId()
MaxAttempts == 3    \* random-suffix attempts
Radix36     == 36   \* Date.now().toString(36)

\* title.toLowerCase().trim().replace(/[^\w\s-]/g, '').replace(/\s+/g, '-')
\*      .replace(/-+/g, '-').replace(/^-+|-+$/g, '')
SlugBase(title) ==
    LET lowered  == Trim(ToLowerCase(title))
        kept     == SelectSeq(lowered, LAMBDA c : IsWordChar(c) \/ c \in SpaceChars \/ c = "-")
        hyphened == ReplaceRuns(kept, SpaceChars)
        single   == ReplaceRuns(hyphened, HyphenChars)
    IN  DropWhileEnd(DropWhile(single, HyphenChars), HyphenChars)

Untitled == <<"u", "n", "t", "i", "t", "l", "e", "d">>

\* base || 'untitled'
FirstCandidate(base) == IF base = <<>> THEN Untitled ELSE base

\* `${base}-${generateShortId()}`
SuffixCandidate(base, shortId) == base \o <<"-">> \o shortId

\* `${base}-${timestamp}${generateShortId()}`, timestamp = Date.now().toString(36)
FallbackCandidate(base, now, shortId) ==
    base \o <<"-">> \o ToRadix(now, Radix36) \o shortId

\* the slug path's setters: lowercase, trim
SlugSetter(s) == Trim(ToLowerCase(s))

\* ShouldRegenerate for a hook that derives the slug on every save
ShouldRegenerateAlways(d) == TRUE

\* (this.isNew && !this.slug) || this.isModified('title')
ShouldRegenerate(d) == (d.isNew /\ d.slug = <<>>) \/ IsModified(d, "title")

\* Model.findOne({slug: candidate, _id: {$ne: this._id}}) finds a record
FindOtherWithSlug(store, slug, id) ==
    \E o \in DOMAIN store \ {id} : store[o].slug = slug

\* DuplicateKey for a collection without the unique index
DuplicateKeyNoIndex(store, slug, id) == FALSE

\* the unique index on slug refuses the write of `slug` for record `id`
DuplicateKey(store, slug, id) ==
    \E o \in DOMAIN store \ {id} : store[o].slug = slug

ErrDuplicateKey  == "E11000 duplicate key error"
ErrDocNotFound   == "DocumentNotFoundError"
Pending == "pending"
Ok      == "ok"
None    == "none"

-----------------------------------------------------------------------------
(* Event documents: construction, assignments, and save() in its steps.    *)
(* A save is the pre('validate') hook, interrupted at each awaited         *)
(* findOne, followed by the write, which the unique index may refuse.      *)

\* the 6-character ids drawn by generateShortId(): here one repeated character
ShortIdChars == {"0", "z"}
ShortIds == {[i \in 1..ShortIdLen |-> c] : c \in ShortIdChars}

\* a value of Date.now(), scaled to the integers of the model checker
Timestamps == {1700000000}

Idle == "idle"

MaxSaves == 2    \* save() calls explored per Event document

\* the rest of the hook once the slug section is over, for document d of record e
FinishHook(e, d) ==
    LET r == HookTail(d)
    IN  /\ doc' = [doc EXCEPT ![e] = r.doc]
        /\ pc' = [pc EXCEPT ![e] = IF r.err = NoError THEN "commit" ELSE Idle]
        /\ result' = [result EXCEPT ![e] = IF r.err = NoError THEN Pending ELSE r.err]
        /\ cand' = [cand EXCEPT ![e] = <<>>]
        /\ attempts' = [attempts EXCEPT ![e] = 0]

NewEvent(e, title, date, time) ==
    /\ e \notin DOMAIN doc
    /\ e \notin DOMAIN events
    /\ doc' = Put(doc, e, NewEventDoc(title, date, time))
    /\ UNCHANGED <<events, pc, cand, attempts, result, saves, bookingVars, fieldVars>>

SetField(e, path, value) ==
    /\ e \in DOMAIN doc
    /\ pc[e] = Idle
    /\ doc[e][path] # value
    /\ saves[e] < MaxSaves      \* an assignment no save will follow is not explored
    /\ doc' = [doc EXCEPT ![e] = SetPath(doc[e], path, value)]
    /\ UNCHANGED <<events, pc, cand, attempts, result, saves, bookingVars, fieldVars>>

SetTitle(e, title) == SetField(e, "title", Trim(title))

\* save() is called: the hook runs up to its first await, or to its end
SaveStart(e) ==
    /\ e \in DOMAIN doc
    /\ pc[e] = Idle
    /\ saves[e] < MaxSaves
    /\ saves' = [saves EXCEPT ![e] = @ + 1]
    /\ IF ShouldRegenerate(doc[e])
       THEN /\ cand' = [cand EXCEPT ![e] = FirstCandidate(SlugBase(doc[e].title))]
            /\ pc' = [pc EXCEPT ![e] = "findBase"]
            /\ result' = [result EXCEPT ![e] = Pending]
            /\ UNCHANGED <<doc, attempts>>
       ELSE FinishHook(e, doc[e])
    /\ UNCHANGED <<events, bookingVars, fieldVars>>

\* the findOne for the first candidate resolves
FindBase(e) ==
    /\ pc[e] = "findBase"
    /\ UNCHANGED saves
    /\ IF FindOtherWithSlug(events, cand[e], e)
       THEN \E id \in ShortIds :
               /\ attempts' = [attempts EXCEPT ![e] = 0]
               /\ cand' = [cand EXCEPT ![e] = SuffixCandidate(SlugBase(doc[e].title), id)]
               /\ pc' = [pc EXCEPT ![e] = "findRetry"]
               /\ UNCHANGED <<doc, result>>
       ELSE FinishHook(e, SetPath(doc[e], "slug", SlugSetter(cand[e])))
    /\ UNCHANGED <<events, bookingVars, fieldVars>>

\* the findOne of one random-suffix attempt resolves
FindRetry(e) ==
    /\ pc[e] = "findRetry"
    /\ UNCHANGED saves
    /\ IF ~FindOtherWithSlug(events, cand[e], e)
       THEN FinishHook(e, SetPath(doc[e], "slug", SlugSetter(cand[e])))
       ELSE IF attempts[e] + 1 < MaxAttempts
       THEN \E id \in ShortIds :
               /\ attempts' = [attempts EXCEPT ![e] = @ + 1]
               /\ cand' = [cand EXCEPT ![e] = SuffixCandidate(SlugBase(doc[e].title), id)]
               /\ UNCHANGED <<doc, pc, result>>
       ELSE \E id \in ShortIds, now \in Timestamps :
               LET fallback == FallbackCandidate(SlugBase(doc[e].title), now, id)
               IN  FinishHook(e, SetPath(doc[e], "slug", SlugSetter(fallback)))
    /\ UNCHANGED <<events, bookingVars, fieldVars>>

\* the write reaches the store
Commit(e) ==
    /\ pc[e] = "commit"
    /\ pc' = [pc EXCEPT ![e] = Idle]
    /\ IF ~doc[e].isNew /\ e \notin DOMAIN events
       THEN /\ result' = [result EXCEPT ![e] = ErrDocNotFound]
            /\ UNCHANGED <<events, doc>>
       ELSE IF DuplicateKey(events, doc[e].slug, e)
       THEN /\ result' = [result EXCEPT ![e] = ErrDuplicateKey]
            /\ UNCHANGED <<events, doc>>
       ELSE /\ events' = Put(events, e,
                   Persisted(doc[e], IF e \in DOMAIN events THEN events[e] ELSE doc[e]))
            /\ doc' = [doc EXCEPT ![e] = [@ EXCEPT !.isNew = FALSE, !.mod = {}]]
            /\ result' = [result EXCEPT ![e] = Ok]
    /\ UNCHANGED <<cand, attempts, saves, bookingVars, fieldVars>>

\* Event.deleteOne({_id: e}) by any caller
DeleteEvent(e) ==
    /\ e \in DOMAIN events
    /\ events' = Remove(events, e)
    /\ UNCHANGED <<doc, pc, cand, attempts, result, saves, bookingVars, fieldVars>>

-----------------------------------------------------------------------------
(* Booking documents and the Booking pre('save') hook.                     *)

MaxBookingSaves == 3    \* save() calls explored per Booking document

ErrReference == "Referenced event does not exist"
ErrEmail     == "Please provide a valid email address"

\* the email path's setters: lowercase, trim
EmailSetter(s) == Trim(ToLowerCase(s))

\* /^[^\s@]+@[^\s@]+\.[^\s@]+$/.test(v)
EmailValid(v) ==
    \E i \in DOMAIN v, j \in DOMAIN v :
        /\ 1 < i /\ i + 1 < j /\ j < Len(v)
        /\ v[i] = "@"
        /\ v[j] = "."
        /\ \A k \in DOMAIN v : v[k] \notin SpaceChars /\ (v[k] = "@" => k = i)

\* new Booking({eventId, email})
NewBookingDoc(eventId, email) ==
    [eventId |-> eventId, email |-> EmailSetter(email),
     isNew |-> TRUE, mod |-> {"eventId", "email"}]

\* EventExists for a hook that takes every reference for good
EventExistsAlways(store, eventId) == TRUE

\* Event.exists({_id: eventId}) finds a record
EventExists(store, eventId) == eventId \in DOMAIN store

\* ShouldCheckReference for a hook that checks on every save
ShouldCheckReferenceAlways(d) == TRUE

\* this.isModified('eventId')
ShouldCheckReference(d) == IsModified(d, "eventId")

NewBooking(b, eventId, email) ==
    /\ b \notin DOMAIN bdoc
    /\ bdoc' = Put(bdoc, b, NewBookingDoc(eventId, email))
    /\ UNCHANGED <<bookings, bpc, bsaves, bresult, brejected, eventVars, fieldVars>>

SetBookingField(b, path, value) ==
    /\ b \in DOMAIN bdoc
    /\ bpc[b] = Idle
    /\ bdoc[b][path] # value
    /\ bsaves[b] < MaxBookingSaves      \* an assignment no save will follow is not explored
    /\ bdoc' = [bdoc EXCEPT ![b] = SetPath(bdoc[b], path, value)]
    /\ UNCHANGED <<bookings, bpc, bsaves, bresult, brejected, eventVars, fieldVars>>

SetEventId(b, eventId) == SetBookingField(b, "eventId", eventId)
SetEmail(b, email)     == SetBookingField(b, "email", EmailSetter(email))

\* save() is called: validation of the modified paths, then the hook up to its await
BookingSaveStart(b) ==
    /\ b \in DOMAIN bdoc
    /\ bpc[b] = Idle
    /\ bsaves[b] < MaxBookingSaves
    /\ bsaves' = [bsaves EXCEPT ![b] = @ + 1]
    /\ IF IsModified(bdoc[b], "email") /\ ~EmailValid(bdoc[b].email)
       THEN /\ bresult' = [bresult EXCEPT ![b] = ErrEmail]
            /\ UNCHANGED bpc
       ELSE IF ShouldCheckReference(bdoc[b])
       THEN /\ bresult' = [bresult EXCEPT ![b] = Pending]
            /\ bpc' = [bpc EXCEPT ![b] = "exists"]
       ELSE /\ bresult' = [bresult EXCEPT ![b] = Pending]
            /\ bpc' = [bpc EXCEPT ![b] = "commit"]
    /\ UNCHANGED <<bookings, bdoc, brejected, eventVars, fieldVars>>

\* the Event.exists of the hook resolves
BookingExists(b) ==
    /\ bpc[b] = "exists"
    /\ IF EventExists(events, bdoc[b].eventId)
       THEN /\ bpc' = [bpc EXCEPT ![b] = "commit"]
            /\ UNCHANGED <<bresult, brejected>>
       ELSE /\ bpc' = [bpc EXCEPT ![b] = Idle]
            /\ bresult' = [bresult EXCEPT ![b] = ErrReference]
            /\ brejected' = brejected \cup {<<b, bdoc[b].eventId>>}
    /\ UNCHANGED <<bookings, bdoc, bsaves, eventVars, fieldVars>>

\* the write reaches the store
BookingCommit(b) ==
    /\ bpc[b] = "commit"
    /\ bpc' = [bpc EXCEPT ![b] = Idle]
    /\ bookings' = Put(bookings, b, [eventId |-> bdoc[b].eventId, email |-> bdoc[b].email])
    /\ bdoc' = [bdoc EXCEPT ![b] = [@ EXCEPT !.isNew = FALSE, !.mod = {}]]
    /\ bresult' = [bresult EXCEPT ![b] = Ok]
    /\ UNCHANGED <<bsaves, brejected, eventVars, fieldVars>>

-----------------------------------------------------------------------------
(* Field-normalisation runs: one Event document whose date (or time) was   *)
(* modified is handed to the date and time sections of the hook.           *)

MaxMonth   == 13    \* month parts 00..MaxMonth
MaxDay     == 32    \* day parts 00..MaxDay
MaxTimeLen == 5     \* time inputs of up to MaxTimeLen characters

Pad(n, width) == PadStart(NumToStr(n), width, "0")

YearParts ==
    {Pad(y, 4) : y \in {0, 50, 99, 100, 999, 1000, 1900, 2000, 2023, 2024, 2100, 9999}}
        \cup {<<"9", "9", "9">>, <<"2", "0", "2", "4", "5">>, <<"2", "0", "2", "x">>}
MonthParts == {Pad(m, 2) : m \in 0..MaxMonth} \cup {<<"3">>, <<"9", "9">>, <<"0", "3", "0">>}
DayParts   == {Pad(d, 2) : d \in 0..MaxDay} \cup {<<"5">>, <<"9", "9">>, <<" ", "5">>}
DateSeparators == {"-", "/"}

DateInputs ==
    {y \o <<s1>> \o m \o <<s2>> \o d :
        y \in YearParts, s1 \in DateSeparators, m \in MonthParts,
        s2 \in DateSeparators, d \in DayParts}

TimeAlphabet == {"0", "1", "2", "3", "4", "5", "9", ":"}
TimeInputs == UNION {[1..n -> TimeAlphabet] : n \in 0..MaxTimeLen}

ValidDate == <<"2", "0", "2", "4", "-", "0", "3", "-", "0", "5">>
ValidTime == <<"0", "9", ":", "0", "5">>

\* an Event document as far as the date and time sections read it
FieldDoc(date, time, mod) == [date |-> date, time |-> time, mod |-> mod]

\* no document constructed, no save running, no Booking persisted
NoDocuments ==
    /\ doc = EmptyMap
    /\ pc = [e \in EventIds |-> Idle]
    /\ cand = [e \in EventIds |-> <<>>]
    /\ attempts = [e \in EventIds |-> 0]
    /\ result = [e \in EventIds |-> None]
    /\ saves = [e \in EventIds |-> 0]
    /\ bookings = EmptyMap
    /\ bdoc = EmptyMap
    /\ bpc = [b \in BookingIds |-> Idle]
    /\ bsaves = [b \in BookingIds |-> 0]
    /\ bresult = [b \in BookingIds |-> None]
    /\ brejected = {}

InitDate ==
    /\ events = EmptyMap
    /\ NoDocuments
    /\ \E s \in DateInputs : fdoc = FieldDoc(s, ValidTime, {"date"})
    /\ fout = [err |-> NotRun, doc |-> fdoc]

InitTime ==
    /\ events = EmptyMap
    /\ NoDocuments
    /\ \E s \in TimeInputs : fdoc = FieldDoc(ValidDate, s, {"time"})
    /\ fout = [err |-> NotRun, doc |-> fdoc]

\* the hook runs on the document: its date and time sections
NormalizeFields ==
    /\ fout.err = NotRun
    /\ fout' = HookTail(fdoc)
    /\ UNCHANGED <<fdoc, eventVars, bookingVars>>

SpecDate == InitDate /\ [][NormalizeFields]_vars
SpecTime == InitTime /\ [][NormalizeFields]_vars

-----------------------------------------------------------------------------
(* The Event store under concurrent saves.                                 *)

TitleGo     == <<"G", "o">>
TitleGoBang == <<"g", "o", "!">>
TitleBangs  == <<"!", "!">>
Titles == {TitleGo, TitleGoBang, TitleBangs}

EventDates == {ValidDate}
ShortTime == <<"9", ":", "0", "5">>
EventTimes == {ShortTime}

\* records that earlier saves of the titles "Go", "Go" and "!!" left in the collection
SeedEvents ==
    [s \in {"s1", "s2", "s3"} |->
        [title |-> IF s = "s3" THEN TitleBangs ELSE TitleGo,
         slug  |-> IF s = "s1" THEN SlugBase(TitleGo)
                   ELSE IF s = "s2"
                   THEN SuffixCandidate(SlugBase(TitleGo), [i \in 1..ShortIdLen |-> "0"])
                   ELSE Untitled,
         date  |-> ValidDate,
         time  |-> ValidTime]]

\* the Event collection when the process starts: empty, or as earlier saves left it
InitialStores == {EmptyMap, SeedEvents}

Init ==
    /\ events \in InitialStores
    /\ NoDocuments
    /\ fdoc = FieldDoc(ValidDate, ValidTime, {})
    /\ fout = [err |-> NotRun, doc |-> fdoc]

Next ==
    \E e \in EventIds :
        \/ \E t \in Titles, d \in EventDates, tm \in EventTimes : NewEvent(e, t, d, tm)
        \/ \E t \in Titles : SetTitle(e, t)
        \/ SaveStart(e)
        \/ FindBase(e)
        \/ FindRetry(e)
        \/ Commit(e)

Spec == Init /\ [][Next]_vars

-----------------------------------------------------------------------------
(* Bookings against an Event collection that is written and deleted from.  *)

BookedEventIds == {"e1"}
ReferencedIds  == {"e1", "s1"}

EmailA   == <<"a", "@", "b", ".", "c">>
EmailB   == <<"Z", "@", "b", ".", "c">>
EmailBad == <<"a", "@", "b">>
Emails == {EmailA, EmailB, EmailBad}

InitBooking ==
    /\ events = [s \in {"s1"} |-> SeedEvents[s]]
    /\ NoDocuments
    /\ fdoc = FieldDoc(ValidDate, ValidTime, {})
    /\ fout = [err |-> NotRun, doc |-> fdoc]

NextBooking ==
    \/ \E e \in BookedEventIds :
        \/ NewEvent(e, TitleGo, ValidDate, ShortTime)
        \/ SaveStart(e)
        \/ FindBase(e)
        \/ FindRetry(e)
        \/ Commit(e)
    \/ \E e \in ReferencedIds : DeleteEvent(e)
    \/ \E b \in BookingIds :
        \/ \E e \in ReferencedIds, m \in Emails : NewBooking(b, e, m)
        \/ \E e \in ReferencedIds : SetEventId(b, e)
        \/ \E m \in Emails : SetEmail(b, m)
        \/ BookingSaveStart(b)
        \/ BookingExists(b)
        \/ BookingCommit(b)

SpecBooking == InitBooking /\ [][NextBooking]_vars

-----------------------------------------------------------------------------
(* Properties of the Event store (Spec).                                   *)

\* C1: no two distinct persisted Event records have the same slug.
C1_SlugsUnique ==
    \A a \in DOMAIN events, b \in DOMAIN events :
        a # b => events[a].slug # events[b].slug

\* two live records whose titles give the same base candidate are both persisted
C1_Witness ==
    /\ EventIds \subseteq DOMAIN events
    /\ \A a \in EventIds : SlugBase(events[a].title) = SlugBase(TitleGo)
    /\ \E a \in EventIds : result[a] = Ok /\ saves[a] = MaxSaves

SlugAlphabet == Range(Digits) \cup Range(LowerAlpha)

\* non-empty, only [a-z0-9-], no leading, trailing or doubled hyphen
WellFormedSlug(s) ==
    /\ s # <<>>
    /\ \A i \in DOMAIN s : s[i] \in SlugAlphabet \cup {"-"}
    /\ s[1] # "-"
    /\ s[Len(s)] # "-"
    /\ \A i \in 1..(Len(s) - 1) : ~(s[i] = "-" /\ s[i + 1] = "-")

\* C3: whichever path produced it (first candidate, random suffix, timestamp
\* fallback), the slug the hook assigns is non-empty, lowercase, made of
\* [a-z0-9-] only, with no leading, trailing or doubled hyphen.
C3_SlugWellFormed ==
    \A e \in DOMAIN doc :
        saves[e] > 0 /\ pc[e] \in {"commit", Idle} => WellFormedSlug(doc[e].slug)

HasPrefix(s, p) == Len(s) >= Len(p) /\ SubSeq(s, 1, Len(p)) = p

\* S, a hyphen, and 6 characters of 0-9a-z
IsSuffixForm(s, S) ==
    /\ Len(s) = Len(S) + 1 + ShortIdLen
    /\ HasPrefix(s, S \o <<"-">>)
    /\ \A i \in (Len(S) + 2)..Len(s) : s[i] \in SlugAlphabet

\* S, a hyphen, a base-36 timestamp and 6 characters of 0-9a-z
IsFallbackForm(s, S) ==
    /\ Len(s) > Len(S) + 1 + ShortIdLen
    /\ HasPrefix(s, S \o <<"-">>)
    /\ \A i \in (Len(S) + 2)..Len(s) : s[i] \in SlugAlphabet

\* C4: when another record holds the first candidate S (the normalised title, or
\* 'untitled'), the slug the hook assigns differs from S and is S-xxxxxx, the
\* first of at most 3 attempts that no other record held, or the timestamp
\* fallback S-<timestamp>xxxxxx.
C4_CollisionSlugForm ==
    [][\A e \in DOMAIN doc :
          pc[e] = "findRetry" /\ pc'[e] # "findRetry" =>
              LET S == FirstCandidate(SlugBase(doc[e].title))
                  s == doc'[e].slug
              IN  /\ s # S
                  /\ \/ /\ IsSuffixForm(s, S)
                        /\ ~FindOtherWithSlug(events, s, e)
                        /\ attempts[e] < MaxAttempts
                     \/ IsFallbackForm(s, S)]_vars

\* C5: a save of a document whose title is unmodified and which has a slug
\* leaves the slug as it is, in the document and in the store, and issues no
\* slug lookup.
C5_UnchangedTitleKeepsSlug ==
    [][\A e \in DOMAIN doc :
          ~IsModified(doc[e], "title") /\ doc[e].slug # <<>> =>
              /\ doc'[e].slug = doc[e].slug
              /\ pc'[e] \notin {"findBase", "findRetry"}
              /\ e \in DOMAIN events /\ e \in DOMAIN events' =>
                    events'[e].slug = events[e].slug]_vars

\* a persisted document with its title unmodified went through the hook and
\* is about to be written
C5_Witness ==
    \E e \in DOMAIN doc :
        /\ pc[e] = "commit"
        /\ ~doc[e].isNew
        /\ ~IsModified(doc[e], "title")
        /\ doc[e].slug = events[e].slug

HookErrors == {ErrDatePattern, ErrDateInvalid, ErrTimePattern}

\* C10: of two saves whose hooks settled on the same slug, at most one is
\* written; the other ends with the store's duplicate-key error, its record
\* not holding the slug.
C10_RaceLoserGetsDuplicateKey ==
    \A a \in DOMAIN doc, b \in DOMAIN doc :
        /\ a # b
        /\ doc[a].slug # <<>>
        /\ doc[a].slug = doc[b].slug
        /\ pc[a] = Idle /\ result[a] = Ok
        /\ pc[b] = Idle /\ result[b] \notin {None} \cup HookErrors
        => /\ result[b] = ErrDuplicateKey
           /\ b \in DOMAIN events => events[b].slug # doc[b].slug

\* two creations with the same title, started on an empty collection, both
\* passed the pre-check with the first candidate; one was written, the other
\* got the duplicate-key error
C10_Witness ==
    \E a \in DOMAIN doc, b \in DOMAIN doc :
        /\ a # b
        /\ DOMAIN events = {a}
        /\ doc[a].title = doc[b].title
        /\ doc[a].slug = FirstCandidate(SlugBase(doc[a].title))
        /\ doc[b].slug = doc[a].slug
        /\ saves[a] = 1 /\ saves[b] = 1
        /\ result[a] = Ok
        /\ result[b] = ErrDuplicateKey /\ pc[b] = Idle /\ doc[b].isNew

-----------------------------------------------------------------------------
(* Properties of Booking saves (SpecBooking).                              *)

\* C2: a save that sets or changes eventId goes on to the write only if the
\* Event exists when the lookup resolves; if none exists the save ends with
\* 'Referenced event does not exist' and nothing is written.
C2_ReferenceChecked ==
    [][\A b \in DOMAIN bdoc :
          /\ bpc[b] = "exists" /\ bpc'[b] # "exists" =>
                IF bdoc[b].eventId \in DOMAIN events
                THEN bpc'[b] = "commit"
                ELSE /\ bpc'[b] = Idle
                     /\ bresult'[b] = ErrReference
                     /\ bookings' = bookings
          /\ IsModified(bdoc[b], "eventId") /\ bpc[b] # "commit" /\ bpc'[b] = "commit" =>
                bpc[b] = "exists" /\ bdoc[b].eventId \in DOMAIN events
          /\ IsModified(bdoc[b], "eventId") /\ bookings' # bookings => bpc[b] = "commit"]_vars

\* a Booking refused for a missing Event was saved, unchanged, once the Event existed
C2_Witness ==
    \E b \in DOMAIN bookings :
        /\ <<b, bookings[b].eventId>> \in brejected
        /\ bsaves[b] = 2
        /\ bresult[b] = Ok
        /\ bookings[b].eventId \in BookedEventIds

\* C9: a save of a persisted Booking whose eventId is unmodified issues no read
\* of the Event collection and does not end with the reference error, whether
\* or not the Event still exists.
C9_UnchangedReferenceNotChecked ==
    [][\A b \in DOMAIN bdoc :
          ~bdoc[b].isNew /\ ~IsModified(bdoc[b], "eventId") =>
              /\ bpc'[b] # "exists"
              /\ bresult'[b] # ErrReference]_vars

\* an email-only update of a Booking whose Event was deleted is about to be written
C9_Witness ==
    \E b \in DOMAIN bdoc :
        /\ bpc[b] = "commit"
        /\ ~bdoc[b].isNew
        /\ bdoc[b].mod = {"email"}
        /\ bdoc[b].eventId \notin DOMAIN events

-----------------------------------------------------------------------------
(* Properties of the date and time sections (SpecDate, SpecTime).          *)

FieldsRan == fout.err # NotRun

IsLeapYear(y) == y % 4 = 0 /\ (y % 100 # 0 \/ y % 400 = 0)

DaysInMonth(y, m) ==
    IF m = 2 THEN (IF IsLeapYear(y) THEN 29 ELSE 28)
    ELSE IF m \in {4, 6, 9, 11} THEN 30 ELSE 31

\* year, month and day name a day of the Gregorian calendar (which has no year 0)
IsCalendarDate(y, m, d) == y >= 1 /\ m \in 1..12 /\ d \in 1..DaysInMonth(y, m)

\* the string is four digits, a hyphen, two digits, a hyphen, two digits
IsPaddedDate(s) ==
    /\ Len(s) = 10
    /\ s[5] = "-" /\ s[8] = "-"
    /\ \A i \in (1..10) \ {5, 8} : s[i] \in Range(Digits)

\* C6: every accepted date is stored as a zero-padded YYYY-MM-DD string identical
\* to the input (normalising is idempotent), and an input that does not match the
\* 4-2-2 digit pattern is rejected and left as it was.
C6_StoredDateIsInput ==
    FieldsRan /\ IsModified(fdoc, "date") =>
        /\ fout.err = NoError =>
              /\ IsPaddedDate(fout.doc.date)
              /\ fout.doc.date = fdoc.date
        /\ ~IsPaddedDate(fdoc.date) =>
              /\ fout.err = ErrDatePattern
              /\ fout.doc.date = fdoc.date

\* C7: a modified date of the 4-2-2 digit form is accepted if and only if its
\* year, month and day name a real Gregorian calendar date; every other one is
\* rejected with 'Invalid date components'.
C7_AcceptsExactlyCalendarDates ==
    FieldsRan /\ IsModified(fdoc, "date") /\ IsPaddedDate(fdoc.date) =>
        LET y == ParseInt(SubSeq(fdoc.date, 1, 4))
            m == ParseInt(SubSeq(fdoc.date, 6, 7))
            d == ParseInt(SubSeq(fdoc.date, 9, 10))
        IN  /\ fout.err = NoError <=> IsCalendarDate(y, m, d)
            /\ ~IsCalendarDate(y, m, d) => fout.err = ErrDateInvalid

\* every H:MM and HH:MM spelling of a time of day, with its canonical HH:MM form
ClockForms ==
    UNION {
        {<<Pad(h, 2) \o <<":">> \o Pad(m, 2), Pad(h, 2) \o <<":">> \o Pad(m, 2)>>,
         <<NumToStr(h) \o <<":">> \o Pad(m, 2), Pad(h, 2) \o <<":">> \o Pad(m, 2)>>} :
        h \in 0..23, m \in 0..59}

ClockSpellings == {f[1] : f \in ClockForms}

\* C8: a modified time is accepted if and only if it is H:MM or HH:MM with hour
\* 0..23 and minute 00..59; the stored time is then the hour padded to two
\* digits, a colon and the minute; every other string is rejected with 'Time
\* must be in HH:MM format' and left as it was.
C8_TimeAcceptedAndPadded ==
    FieldsRan /\ IsModified(fdoc, "time") =>
        IF fdoc.time \in ClockSpellings
        THEN /\ fout.err = NoError
             /\ <<fdoc.time, fout.doc.time>> \in ClockForms
        ELSE /\ fout.err = ErrTimePattern
             /\ fout.doc.time = fdoc.time

\* 9:05 was accepted and stored as 09:05
C8_Witness ==
    /\ fout.err = NoError
    /\ fdoc.time = <<"9", ":", "0", "5">>
    /\ fout.doc.time = <<"0", "9", ":", "0", "5">>

=============================================================================
